---------------------------- MODULE Spec2Model ----------------------------
(***************************************************************************)
(* Model of the air-quality data fusion engine of src/api/data_sources.py. *)
(*                                                                         *)
(* Number representation.  The program computes with Python floats; the    *)
(* model uses exact fixed-point integers:                                  *)
(*   - coordinates (lat, lon) in ten-thousandths of a degree (the seed of  *)
(*     the synthesizers keeps three decimals, lines 190 and 761);          *)
(*   - concentrations and distances in hundredths (round(x, 2) at          *)
(*     data_sources.py:294 and :320 is the finest value the code keeps);   *)
(*   - per-pollutant index values in thousandths, truncated toward zero    *)
(*     (the O3 and NO2 converters return unrounded floats; the only        *)
(*     later uses are max() and int(), which commute with truncation);     *)
(*   - overall and weather-adjusted indices as plain integers.             *)
(* Python's round() is modelled as round-half-to-even on the exact value.  *)
(***************************************************************************)
EXTENDS Integers, Sequences, FiniteSets, TLC

---------------------------------------------------------------------------
(* Arithmetic helpers (Python built-ins abs, int, round, min, max).        *)

Abs(x) == IF x < 0 THEN -x ELSE x

Min(a, b) == IF a <= b THEN a ELSE b

Max(a, b) == IF a >= b THEN a ELSE b

\* int(n/d) for d > 0: truncation toward zero.
TruncDiv(n, d) == IF n >= 0 THEN n \div d ELSE -((-n) \div d)

\* floor(n/d) for d > 0.
FloorDiv(n, d) == IF n >= 0 THEN n \div d ELSE -(((-n) + d - 1) \div d)

\* round(n/d) for d > 0: nearest integer, ties to the even one.
RoundDiv(n, d) ==
    LET q == FloorDiv(n, d)
        r == n - q * d
    IN  IF 2 * r < d THEN q
        ELSE IF 2 * r > d THEN q + 1
        ELSE IF q % 2 = 0 THEN q ELSE q + 1

\* round(n/d) for n >= 0, d > 0, ties upward.
RoundHalfUpDiv(n, d) == (2 * n + d) \div (2 * d)

\* Python's float modulo x % m for m > 0 (result in [0, m)).
PyMod(x, m) == x - m * FloorDiv(x, m)

---------------------------------------------------------------------------
(* AQI converters, data_sources.py:808-851.  Argument: concentration in    *)
(* hundredths.  Result: index in thousandths.                              *)

\* The EPA breakpoint table of _pm25_to_aqi, concentrations in hundredths.
Pm25Breakpoints ==
    << <<0, 1200, 0, 50>>,
       <<1210, 3540, 51, 100>>,
       <<3550, 5540, 101, 150>>,
       <<5550, 15040, 151, 200>>,
       <<15050, 25040, 201, 300>>,
       <<25050, 50040, 301, 500>> >>

\* The first band of the table that contains c, or 0 when none does.
Pm25Band(c) ==
    LET hits == {i \in DOMAIN Pm25Breakpoints :
                    Pm25Breakpoints[i][1] <= c /\ c <= Pm25Breakpoints[i][2]}
    IN  IF hits = {} THEN 0
        ELSE CHOOSE i \in hits : \A j \in hits : i <= j

\* _pm25_to_aqi: linear interpolation inside the matching band, rounded;
\* 500 when no band matches (above the table, below 0, or in a gap between
\* two bands such as 12.05).
pm25_to_aqi(c) ==
    LET i == Pm25Band(c)
    IN  IF i = 0 THEN 500 * 1000
        ELSE LET b == Pm25Breakpoints[i]
             IN  1000 * RoundDiv(b[3] * (b[2] - b[1]) + (b[4] - b[3]) * (c - b[1]),
                                 b[2] - b[1])

\* _o3_to_aqi: unrounded piecewise-linear value.
o3_to_aqi(c) ==
    IF c <= 5400 THEN TruncDiv(500 * c, 54)
    ELSE IF c <= 7000 THEN TruncDiv(51000 * 15 + 490 * (c - 5500), 15)
    ELSE IF c <= 8500 THEN TruncDiv(101000 * 14 + 490 * (c - 7100), 14)
    ELSE IF c <= 10500 THEN TruncDiv(151000 * 19 + 490 * (c - 8600), 19)
    ELSE Min(500000, 201000 + 20 * (c - 10600))

\* _no2_to_aqi: unrounded piecewise-linear value.
no2_to_aqi(c) ==
    IF c <= 5300 THEN TruncDiv(500 * c, 53)
    ELSE IF c <= 10000 THEN TruncDiv(51000 * 46 + 490 * (c - 5400), 46)
    ELSE IF c <= 36000 THEN TruncDiv(101000 * 259 + 490 * (c - 10100), 259)
    ELSE Min(500000, 151000 + 5 * (c - 36100))

---------------------------------------------------------------------------
(* Values shared by the Readings.                                          *)

\* An optional value (Python None or a value): <<>> or <<v>>.
NoneValue == <<>>

Some(v) == <<v>>

IsNone(o) == o = <<>>

\* The four adapter calls of one request, data_sources.py:530-535.
Sources == {"tempo", "openaq", "aqicn", "weather"}

\* Outcome of an adapter call as asyncio.gather(return_exceptions=True)
\* hands it to the pipeline: not yet finished, an exception object, None,
\* or a Reading (a record with kind = "data").
Pending == [kind |-> "pending"]

RaisedException == [kind |-> "exception"]

NoData == [kind |-> "none"]

\* Python truthiness of an adapter outcome once exceptions are mapped to
\* None (lines 540-543): every Reading is a non-empty dict.
IsReading(r) == r.kind = "data"

---------------------------------------------------------------------------
(* SpatialAverager, data_sources.py:247-324.                               *)

RECURSIVE Gcd(_, _)
Gcd(a, b) == IF b = 0 THEN a ELSE Gcd(b, a % b)

Lcm(a, b) == (a \div Gcd(a, b)) * b

\* dict.update of one station's measurement dict by a later payload entry.
Override(f, g) ==
    [p \in (DOMAIN f) \cup (DOMAIN g) |-> IF p \in DOMAIN g THEN g[p] ELSE f[p]]

\* Index of the station called name in the station list, 0 if absent.
StationIndex(stations, name) ==
    LET hits == {i \in DOMAIN stations : stations[i].name = name}
    IN  IF hits = {} THEN 0 ELSE CHOOSE i \in hits : TRUE

\* The grouping loop of _process_openaq_data (lines 253-276): one station
\* per distinct location, in order of first appearance (dict insertion
\* order); measurements of a repeated location overwrite per parameter.
RECURSIVE GroupStations(_, _)
GroupStations(measurements, acc) ==
    IF measurements = <<>> THEN acc
    ELSE LET m == Head(measurements)
             i == StationIndex(acc, m.location)
             next == IF i = 0
                     THEN Append(acc, [name |-> m.location,
                                       distance_km |-> m.distance_km,
                                       measurements |-> m.measurements])
                     ELSE [acc EXCEPT ![i].measurements = Override(@, m.measurements)]
         IN  GroupStations(Tail(measurements), next)

\* Stations that report a non-None value for param.
Reporting(stations, param) ==
    {i \in DOMAIN stations :
        /\ param \in DOMAIN stations[i].measurements
        /\ ~IsNone(stations[i].measurements[param])}

RECURSIVE LcmOver(_, _)
LcmOver(stations, idx) ==
    IF idx = {} THEN 1
    ELSE LET i == CHOOSE k \in idx : TRUE
         IN  Lcm(stations[i].distance_km + 100, LcmOver(stations, idx \ {i}))

RECURSIVE SumOver(_, _)
SumOver(f, idx) ==
    IF idx = {} THEN 0
    ELSE LET i == CHOOSE k \in idx : TRUE
         IN  f[i] + SumOver(f, idx \ {i})

\* Variant of calculate_weighted_average in which a station that lists a
\* parameter with a null value still adds its weight.
calculate_weighted_average_null_weights(stations) ==
    LET params == UNION {DOMAIN stations[i].measurements : i \in DOMAIN stations}
        kept == {p \in params : Reporting(stations, p) # {}}
    IN  [p \in kept |->
            LET idx == Reporting(stations, p)
                all == {i \in DOMAIN stations : p \in DOMAIN stations[i].measurements}
                L == LcmOver(stations, all)
                W == [i \in all |-> L \div (stations[i].distance_km + 100)]
                tv == SumOver([i \in idx |-> stations[i].measurements[p][1] * W[i]], idx)
                tw == SumOver(W, all)
            IN  [value |-> RoundDiv(tv, tw),
                 confidence |-> Min(TruncDiv(1000 * 1000 * tw, L), 100 * 1000)]]

\* _calculate_weighted_average (lines 298-324): weight 1/(distance+1) per
\* station; a parameter is kept when its total weight is positive, i.e.
\* when at least one station reports a non-None value for it.  With L the
\* least common multiple of the stations' (distance+1), in hundredths, the
\* weight of station i is (100/L) * W[i] with W[i] = L/(distance_i+100).
\* value is round(total_value/total_weight, 2) in hundredths; confidence is
\* min(total_weight * 10, 100) in thousandths.
calculate_weighted_average(stations) ==
    LET params == UNION {DOMAIN stations[i].measurements : i \in DOMAIN stations}
        kept == {p \in params : Reporting(stations, p) # {}}
    IN  [p \in kept |->
            LET idx == Reporting(stations, p)
                L == LcmOver(stations, idx)
                W == [i \in idx |-> L \div (stations[i].distance_km + 100)]
                tv == SumOver([i \in idx |-> stations[i].measurements[p][1] * W[i]], idx)
                tw == SumOver(W, idx)
            IN  [value |-> RoundDiv(tv, tw),
                 confidence |-> Min(TruncDiv(1000 * 1000 * tw, L), 100 * 1000)]]

\* _process_openaq_data (lines 247-289) for a non-empty payload.
process_openaq_data(measurements) ==
    LET stations == GroupStations(measurements, <<>>)
    IN  [kind |-> "data",
         source |-> "OpenAQ",
         stations_count |-> Len(stations),
         stations_data |-> SubSeq(stations, 1, Min(3, Len(stations))),
         averaged_measurements |-> calculate_weighted_average(stations)]

---------------------------------------------------------------------------
(* Bounds and inputs of the model.                                         *)

\* Longest OpenAQ payload (number of entries of "results") a provider
\* response carries in the model.
MaxStations == 2

\* Query points (lat, lon) in ten-thousandths of a degree: New York
\* (inside the TEMPO box), (0, 0) (outside it, "urban" for the ground
\* mock) and Delhi (outside it, inside the India box of the ground mock).
Coords == {<<407000, -740000>>, <<0, 0>>, <<286000, 772000>>}

\* Entries of an OpenAQ "results" payload: location, the distance
\* _calculate_distance derives from its coordinates (hundredths of a km),
\* and its measurements (hundredths; <<>> is a null value).
StationInputs ==
    { [location |-> "A", distance_km |-> 0,
       measurements |-> [p \in {"pm25", "no2"} |->
                            IF p = "pm25" THEN Some(1200) ELSE Some(3000)]],
      [location |-> "B", distance_km |-> 0,
       measurements |-> [p \in {"pm25"} |-> Some(1210)]],
      [location |-> "C", distance_km |-> 300,
       measurements |-> [p \in {"pm25", "o3"} |->
                            IF p = "pm25" THEN NoneValue ELSE Some(-1000)]],
      [location |-> "D", distance_km |-> 100,
       measurements |-> [p \in {"pm25"} |-> NoneValue]] }

RECURSIVE SeqsUpTo(_, _)
SeqsUpTo(S, n) ==
    IF n = 0 THEN {<<>>}
    ELSE LET shorter == SeqsUpTo(S, n - 1)
         IN  shorter \cup {Append(q, x) : q \in shorter, x \in S}

\* The "results" lists a provider response may carry.
MeasurementLists == SeqsUpTo(StationInputs, MaxStations)

\* Values a call of random.uniform(lo, hi) or random.randint(lo, hi) is
\* allowed to produce in the model: the two ends of the range.
UniformDraws(lo, hi) == {lo, hi}

\* A JSON value read from a provider body without validation.
JNull == [t |-> "null"]

JInt(n) == [t |-> "int", v |-> n]

JStr(x) == [t |-> "str", s |-> x]

\* Python truthiness of such a value.
Truthy(j) ==
    CASE j.t = "null" -> FALSE
      [] j.t = "int" -> j.v # 0
      [] j.t = "str" -> j.s # ""

\* "aqi" of a WAQI feed body: missing, 0, an in-range index, an index
\* above 500, or the placeholder "-" the feed uses for "no reading".
AqiJsonValues == {JNull, JInt(0), JInt(42), JInt(600), JStr("-")}

\* "iaqi" of a WAQI feed body: per-pollutant values "v".
IaqiValues == {<<>>, [c \in {"pm25"} |-> 42]}

\* "data" of a WAQI feed body with status "ok".
AqicnPayloads == [aqi : AqiJsonValues, iaqi : IaqiValues]

\* Bodies of a successful OpenWeather response: wind speed, humidity and
\* main condition, one per outcome of _assess_weather_impact.
WeatherPayloads ==
    { [wind_speed |-> 6, humidity |-> 50, condition |-> "Clear"],
      [wind_speed |-> 3, humidity |-> 50, condition |-> "Rain"],
      [wind_speed |-> 3, humidity |-> 90, condition |-> "Clouds"],
      [wind_speed |-> 1, humidity |-> 50, condition |-> "Clear"],
      [wind_speed |-> 3, humidity |-> 50, condition |-> "Clear"] }

---------------------------------------------------------------------------
(* Synthesizers and payload processing of the adapters.                    *)

\* The pollutant values of _generate_mock_tempo_data (lines 69-70, 79,
\* 84): no2 is round(0.5 + ((|lat|+|lon|) * 0.01) % 2.0, 2) and o3 is
\* round(35.0 + random.uniform(-5, 10), 1), u being that draw (hundredths).
mock_tempo_pollutants(la, lo, u) ==
    [c \in {"no2", "o3"} |->
        IF c = "no2"
        THEN RoundDiv(500000 + PyMod(Abs(la) + Abs(lo), 2000000), 10000)
        ELSE 10 * RoundDiv(3500 + u, 10)]

\* _generate_mock_tempo_data (lines 64-92).  The o3 entry (a random value
\* no later code reads) is left out of the Reading.
generate_mock_tempo_data(la, lo) ==
    [kind |-> "data",
     source |-> "NASA TEMPO",
     pollutants |-> [c \in {"no2"} |->
        [value |-> mock_tempo_pollutants(la, lo, 0)[c]]]]

\* The coverage test of get_satellite_data (line 48).
OutsideCoverage(la, lo) ==
    la < 180000 \/ la > 710000 \/ lo < -1750000 \/ lo > -400000

\* Lines 195-196 of _generate_mock_openaq_data.
is_india(la, lo) ==
    60000 <= la /\ la <= 370000 /\ 680000 <= lo /\ lo <= 970000

is_urban(la, lo) ==
    /\ Abs(la - 10000 * RoundDiv(la, 10000)) < 1000
    /\ Abs(lo - 10000 * RoundDiv(lo, 10000)) < 1000

\* The ranges of the three random.uniform calls (lines 198-205), in
\* hundredths (pm25, no2) and tenths (the pm10 factor).
MockRanges(la, lo) ==
    IF is_india(la, lo)
    THEN [pm25 |-> IF is_urban(la, lo) THEN <<2500, 6500>> ELSE <<1500, 4500>>,
          pm10f |-> <<15, 25>>,
          no2 |-> IF is_urban(la, lo) THEN <<2000, 6000>> ELSE <<1000, 3000>>]
    ELSE [pm25 |-> IF is_urban(la, lo) THEN <<800, 2500>> ELSE <<500, 1500>>,
          pm10f |-> <<12, 20>>,
          no2 |-> IF is_urban(la, lo) THEN <<1500, 4000>> ELSE <<500, 2000>>]

\* A ground Reading with one synthetic station, as built at lines 207-245
\* and 770-806: st are the station's values, av the averaged values and
\* conf their confidences.
SyntheticGroundReading(src, st, av, conf) ==
    [kind |-> "data",
     source |-> src,
     stations_count |-> 1,
     stations_data |-> << [name |-> "Estimated Station", distance_km |-> 0,
                           measurements |-> [p \in DOMAIN st |-> Some(st[p])]] >>,
     averaged_measurements |->
        [p \in DOMAIN av |-> [value |-> av[p], confidence |-> conf[p] * 1000]]]

\* The Reading built at lines 207-245 from the three draws base_pm25, the
\* pm10 factor and base_no2, each value rounded to one decimal.
mock_openaq_reading(pm25, f, no2) ==
    LET vals == [p \in {"pm25", "pm10", "no2"} |->
                    CASE p = "pm25" -> 10 * RoundDiv(pm25, 10)
                      [] p = "pm10" -> 10 * RoundDiv(pm25 * f, 100)
                      [] p = "no2" -> 10 * RoundDiv(no2, 10)]
    IN  SyntheticGroundReading("OpenAQ (Enhanced)", vals, vals,
            [p \in {"pm25", "pm10", "no2"} |-> IF p = "no2" THEN 70 ELSE 75])

\* The Readings _generate_mock_openaq_data (lines 184-245) can return at a
\* point: one per outcome of its three random draws.
generate_mock_openaq_data(la, lo) ==
    LET r == MockRanges(la, lo)
    IN  { mock_openaq_reading(pm25, f, no2)
          : pm25 \in UniformDraws(r.pm25[1], r.pm25[2]),
            f \in UniformDraws(r.pm10f[1], r.pm10f[2]),
            no2 \in UniformDraws(r.no2[1], r.no2[2]) }

\* The three values round(base + offset, 1) of lines 778, 784, 790 and
\* 798-800, for offsets u (hundredths): pm25_base =
\* 25 + ((|lat|+|lon|) * 0.5) % 40, pm10_base = pm25_base * 1.7 and
\* no2_base = 10 + (|lat| * 0.3) % 20, here in units of 10^-5.
emergency_values(la, lo, u) ==
    LET pm25_base == 2500000 + PyMod((Abs(la) + Abs(lo)) * 5, 4000000)
        no2_base == 1000000 + PyMod(Abs(la) * 3, 2000000)
    IN  [p \in {"pm25", "pm10", "no2"} |->
            CASE p = "pm25" -> 10 * RoundDiv(pm25_base + 1000 * u[1], 10000)
              [] p = "pm10" -> 10 * RoundDiv(17 * pm25_base + 10000 * u[2], 100000)
              [] p = "no2" -> 10 * RoundDiv(no2_base + 1000 * u[3], 10000)]

\* The Reading of _generate_emergency_fallback_data (lines 756-806) for the
\* offsets s of the station values and a of the averaged values, which are
\* separate draws.
emergency_fallback_reading(la, lo, s, a) ==
    SyntheticGroundReading("OpenAQ (Emergency Fallback)",
        emergency_values(la, lo, s), emergency_values(la, lo, a),
        [p \in {"pm25", "pm10", "no2"} |-> IF p = "no2" THEN 45 ELSE 50])

\* The offsets of one group of three draws: uniform(-5, 5), uniform(-8, 8)
\* and uniform(-3, 3).
EmergencyDraws ==
    UniformDraws(-500, 500) \X UniformDraws(-800, 800) \X UniformDraws(-300, 300)

\* The Readings _generate_emergency_fallback_data can return at a point.
generate_emergency_fallback_data(la, lo) ==
    { emergency_fallback_reading(la, lo, s, a) :
        s \in EmergencyDraws, a \in EmergencyDraws }

\* _assess_weather_impact (lines 395-410).
assess_weather_impact(data) ==
    IF data.wind_speed > 5 THEN "good_dispersion"
    ELSE IF data.condition = "Rain" THEN "cleansing"
    ELSE IF data.humidity > 80 THEN "poor_dispersion"
    ELSE IF data.wind_speed < 2 THEN "stagnant"
    ELSE "moderate"

\* _process_weather_data (lines 362-376); of its fields the pipeline reads
\* air_quality_impact only (wind_speed is fetched at line 717 and unused).
process_weather_data(data) ==
    [kind |-> "data", source |-> "OpenWeather",
     air_quality_impact |-> assess_weather_impact(data)]

\* _get_mock_weather_data (lines 378-393).
get_mock_weather_data ==
    [kind |-> "data", source |-> "Mock Weather", air_quality_impact |-> "moderate"]

\* _process_aqicn_data (lines 472-514): "aqi" is copied unvalidated.
process_aqicn_data(data) ==
    [kind |-> "data",
     source |-> "AQICN (World Air Quality Index)",
     overall_aqi |-> data.aqi,
     pollutants |-> [c \in DOMAIN data.iaqi |->
        [value |-> data.iaqi[c], aqi |-> data.iaqi[c], source |-> "AQICN"]]]

---------------------------------------------------------------------------
(* FusionPipeline, data_sources.py:577-754.                                *)

\* Python truthiness of a Reading-or-None argument.
Present(r) == r.kind = "data"

\* _generate_fallback_aqi (lines 737-754): base_aqi is random.randint(25,
\* 150), u the random.uniform(-5, 5) offset of the pm25 value (hundredths).
generate_fallback_aqi(base_aqi, u) ==
    [overall_aqi |-> JInt(base_aqi),
     pollutants |-> [c \in {"pm25"} |->
        [value |-> 10 * RoundDiv(base_aqi * 40 + u, 10),
         aqi |-> base_aqi * 1000, source |-> "estimated"]],
     primary_source |-> "fallback_model",
     confidence |-> "low"]

\* The index list aqi_values of _calculate_primary_aqi (lines 637-674):
\* one per pollutant of pm25, o3, no2 present in averaged_measurements.
ConvertedIndex(param, value) ==
    CASE param = "pm25" -> pm25_to_aqi(value)
      [] param = "o3" -> o3_to_aqi(value)
      [] param = "no2" -> no2_to_aqi(value)

RECURSIVE MaxOver(_, _)
MaxOver(f, idx) ==
    LET i == CHOOSE k \in idx : TRUE
    IN  IF idx = {i} THEN f[i] ELSE Max(f[i], MaxOver(f, idx \ {i}))

\* Line 683.
ConfidenceOf(n) == IF n >= 2 THEN "high" ELSE "medium"

\* _calculate_primary_aqi (lines 613-684).  sensor_data is the AQICN
\* Reading if there is one, else the OpenAQ Reading, else None.
calculate_primary_aqi(sensor_data, base_aqi, u) ==
    IF ~Present(sensor_data) THEN generate_fallback_aqi(base_aqi, u)
    ELSE IF /\ sensor_data.source = "AQICN (World Air Quality Index)"
            /\ Truthy(sensor_data.overall_aqi)
    THEN [overall_aqi |-> sensor_data.overall_aqi,
          pollutants |-> sensor_data.pollutants,
          primary_source |-> "aqicn",
          confidence |-> "high"]
    ELSE IF \/ "averaged_measurements" \notin DOMAIN sensor_data
            \/ DOMAIN sensor_data.averaged_measurements = {}
    THEN generate_fallback_aqi(base_aqi, u)
    ELSE LET measurements == sensor_data.averaged_measurements
             used == (DOMAIN measurements) \cap {"pm25", "o3", "no2"}
             idx == [p \in used |-> ConvertedIndex(p, measurements[p].value)]
         IN  [overall_aqi |-> JInt(IF used = {} THEN 50
                                   ELSE TruncDiv(MaxOver(idx, used), 1000)),
              pollutants |-> [p \in used |->
                 [value |-> measurements[p].value, aqi |-> idx[p],
                  source |-> "ground_sensor"]],
              primary_source |-> "ground_sensors",
              confidence |-> ConfidenceOf(Cardinality(used))]

\* The pollutants entry added at lines 699-704 when the satellite Reading
\* has an NO2 column: round(no2_column * 0.1, 2).  A column value with an
\* odd number of hundredths makes the exact product a tie, which the float
\* product decides; at the column values of the model's query points
\* (0.50, 1.56, 1.65) Python rounds as RoundHalfUpDiv does.
SatelliteEnhanced(tempo_data) ==
    Present(tempo_data) /\ DOMAIN tempo_data.pollutants # {}

\* Variant of WithSatelliteNo2 that attaches the column value itself.
WithSatelliteNo2_unscaled(pollutants, tempo_data) ==
    IF SatelliteEnhanced(tempo_data) /\ "no2" \in DOMAIN tempo_data.pollutants
    THEN [c \in (DOMAIN pollutants) \cup {"no2_satellite"} |->
            IF c = "no2_satellite"
            THEN [value |-> tempo_data.pollutants["no2"].value,
                  source |-> "satellite"]
            ELSE pollutants[c]]
    ELSE pollutants

WithSatelliteNo2(pollutants, tempo_data) ==
    IF SatelliteEnhanced(tempo_data) /\ "no2" \in DOMAIN tempo_data.pollutants
    THEN [c \in (DOMAIN pollutants) \cup {"no2_satellite"} |->
            IF c = "no2_satellite"
            THEN [value |-> RoundHalfUpDiv(tempo_data.pollutants["no2"].value, 10),
                  source |-> "satellite"]
            ELSE pollutants[c]]
    ELSE pollutants

\* Variant of enhance_with_satellite_data that reports confidence "high"
\* once a satellite Reading has been merged in.
enhance_with_satellite_data_confident(primary_metrics, tempo_data) ==
    [overall_aqi |-> primary_metrics.overall_aqi,
     pollutants |-> WithSatelliteNo2(primary_metrics.pollutants, tempo_data),
     primary_source |-> primary_metrics.primary_source,
     confidence |-> IF SatelliteEnhanced(tempo_data) THEN "high"
                    ELSE primary_metrics.confidence,
     satellite_enhancement |-> SatelliteEnhanced(tempo_data)]

\* _enhance_with_satellite_data (lines 686-709).  result is a shallow copy:
\* result["pollutants"] is the very dict of primary_metrics.
enhance_with_satellite_data(primary_metrics, tempo_data) ==
    [overall_aqi |-> primary_metrics.overall_aqi,
     pollutants |-> WithSatelliteNo2(primary_metrics.pollutants, tempo_data),
     primary_source |-> primary_metrics.primary_source,
     confidence |-> primary_metrics.confidence,
     satellite_enhancement |-> SatelliteEnhanced(tempo_data)]

\* adjustment_factor of lines 720-726, in tenths.
AdjustmentFactor(weather_impact) ==
    CASE weather_impact = "good_dispersion" -> 9
      [] weather_impact \in {"poor_dispersion", "stagnant"} -> 11
      [] weather_impact = "cleansing" -> 8
      [] OTHER -> 10

\* Line 729 raises TypeError when overall_aqi is not a number: the product
\* of a str and a float.
WeatherCorrectionRaises(metrics, weather_data) ==
    Present(weather_data) /\ metrics.overall_aqi.t # "int"

\* Variant of apply_weather_corrections that reports an adjusted index
\* without a weather Reading too, with factor 1.0.
apply_weather_corrections_always(metrics, weather_data) ==
    [overall_aqi |-> metrics.overall_aqi,
     pollutants |-> metrics.pollutants,
     primary_source |-> metrics.primary_source,
     confidence |-> metrics.confidence,
     satellite_enhancement |-> metrics.satellite_enhancement,
     weather_adjusted_aqi |->
        IF Present(weather_data)
        THEN Some(TruncDiv(metrics.overall_aqi.v
                           * AdjustmentFactor(weather_data.air_quality_impact), 10))
        ELSE Some(metrics.overall_aqi.v),
     weather_impact |->
        IF Present(weather_data) THEN Some(weather_data.air_quality_impact)
        ELSE NoneValue]

\* _apply_weather_corrections (lines 711-735), when it does not raise:
\* weather_adjusted_aqi = int(original_aqi * adjustment_factor), a key the
\* result only has when there is a weather Reading.
apply_weather_corrections(metrics, weather_data) ==
    [overall_aqi |-> metrics.overall_aqi,
     pollutants |-> metrics.pollutants,
     primary_source |-> metrics.primary_source,
     confidence |-> metrics.confidence,
     satellite_enhancement |-> metrics.satellite_enhancement,
     weather_adjusted_aqi |->
        IF Present(weather_data)
        THEN Some(TruncDiv(metrics.overall_aqi.v
                           * AdjustmentFactor(weather_data.air_quality_impact), 10))
        ELSE NoneValue,
     weather_impact |->
        IF Present(weather_data) THEN Some(weather_data.air_quality_impact)
        ELSE NoneValue]

\* Variant of DataQuality that does not ask for a weather Reading.
DataQuality_ignores_weather(tempo_data, openaq_data, aqicn_data, weather_data) ==
    IF Present(tempo_data) /\ (Present(openaq_data) \/ Present(aqicn_data))
    THEN "high" ELSE "medium"

\* Line 590.
DataQuality(tempo_data, openaq_data, aqicn_data, weather_data) ==
    IF /\ Present(tempo_data)
       /\ (Present(openaq_data) \/ Present(aqicn_data))
       /\ Present(weather_data)
    THEN "high" ELSE "medium"

\* The primary metrics of one fusion (line 601, "aqicn_data or openaq_data").
PrimaryMetrics(openaq_data, aqicn_data, base_aqi, u) ==
    calculate_primary_aqi(IF Present(aqicn_data) THEN aqicn_data ELSE openaq_data,
                          base_aqi, u)

FuseRaises(tempo_data, openaq_data, aqicn_data, weather_data, base_aqi, u) ==
    WeatherCorrectionRaises(
        enhance_with_satellite_data(
            PrimaryMetrics(openaq_data, aqicn_data, base_aqi, u), tempo_data),
        weather_data)

\* _fuse_data_sources (lines 577-611) when it returns.  raw_data holds the
\* Reading objects themselves: when the AQICN Reading supplies the primary
\* metrics its pollutants dict is the one the satellite entry is added to.
fuse_data_sources(tempo_data, openaq_data, aqicn_data, weather_data, base_aqi, u) ==
    LET primary_aqi == PrimaryMetrics(openaq_data, aqicn_data, base_aqi, u)
        enhanced_metrics == enhance_with_satellite_data(primary_aqi, tempo_data)
        weather_adjusted == apply_weather_corrections(enhanced_metrics, weather_data)
        aqicn_after == IF primary_aqi.primary_source = "aqicn"
                       THEN [aqicn_data EXCEPT !.pollutants = enhanced_metrics.pollutants]
                       ELSE aqicn_data
    IN  [kind |-> "result",
         data_sources |-> [satellite |-> Present(tempo_data),
                           ground_sensors |-> Present(openaq_data) \/ Present(aqicn_data),
                           aqicn |-> Present(aqicn_data),
                           weather |-> Present(weather_data)],
         data_quality |-> DataQuality(tempo_data, openaq_data, aqicn_data, weather_data),
         raw_data |-> [tempo |-> tempo_data, openaq |-> openaq_data,
                       aqicn |-> aqicn_after, weather |-> weather_data],
         overall_aqi |-> weather_adjusted.overall_aqi,
         pollutants |-> weather_adjusted.pollutants,
         primary_source |-> weather_adjusted.primary_source,
         confidence |-> weather_adjusted.confidence,
         satellite_enhancement |-> weather_adjusted.satellite_enhancement,
         weather_adjusted_aqi |-> weather_adjusted.weather_adjusted_aqi,
         weather_impact |-> weather_adjusted.weather_impact]

---------------------------------------------------------------------------
(* State.                                                                  *)

VARIABLES
    NASA_TEMPO_TOKEN,      \* line 18: is the credential configured?
    WAQI_API_KEY,          \* line 21
    OPENWEATHER_API_KEY,   \* line 23 (and not the placeholder of line 334)
    pc,                    \* position of the request: idle, gather, done, raised
    lat, lon,              \* arguments of get_comprehensive_air_quality
    results,               \* outcome of each of the four gathered calls
    rand,                  \* the random draws of _generate_fallback_aqi
    combined_data,         \* the value get_comprehensive_air_quality returns
    data_source_errors,    \* the errors dict of lines 527, 546-560
    error_count,           \* DataSource.error_count of each adapter
    last_successful_call,  \* DataSource.last_successful_call of each adapter
    clock,                 \* the time datetime.utcnow() returns
    generator,             \* state of the module-level generator of "random"
    stream,                \* the outputs of that generator seen so far
    calls                  \* the calls followed on their own so far (synthesizer,
                           \* converter, adapter or payload processing), with
                           \* what each returned

vars == <<NASA_TEMPO_TOKEN, WAQI_API_KEY, OPENWEATHER_API_KEY, pc, lat, lon,
          results, rand, combined_data, data_source_errors, error_count,
          last_successful_call, clock, generator, stream, calls>>

\* What a single request leaves alone: the clock (a request is short) and
\* the record of the generator.  Within one request no output of the
\* generator is read twice, so there each draw is a free choice
\* (UniformDraws) and the generator is not followed.
ambient == <<clock, generator, stream, calls>>

config == <<NASA_TEMPO_TOKEN, WAQI_API_KEY, OPENWEATHER_API_KEY>>

NoResult == [kind |-> "none"]

\* The time datetime.utcnow() returns during the request.
Now == Some(clock)

\* The generator after random.seed(s) and n draws.  At import it is seeded
\* from the operating system's entropy.
GeneratorAt(s, n) == [seed |-> s, pos |-> n]

\* The draws of _generate_fallback_aqi: randint(25, 150), uniform(-5, 5).
FallbackDraws == UniformDraws(25, 150) \X UniformDraws(-500, 500)

\* Module import and DataFusionEngine.__init__ (lines 18-32, 519-523).
Init ==
    /\ NASA_TEMPO_TOKEN \in BOOLEAN
    /\ WAQI_API_KEY \in BOOLEAN
    /\ OPENWEATHER_API_KEY \in BOOLEAN
    /\ pc = "idle"
    /\ lat = 0
    /\ lon = 0
    /\ results = [k \in Sources |-> Pending]
    /\ rand = <<25, -500>>
    /\ combined_data = NoResult
    /\ data_source_errors = <<>>
    /\ error_count = [k \in Sources |-> 0]
    /\ last_successful_call = [k \in Sources |-> NoneValue]
    /\ clock = 1
    /\ generator = GeneratorAt(<<"entropy">>, 0)
    /\ stream = <<>>
    /\ calls = <<>>

\* A response of the HTTP client to one request: an exception (timeout,
\* connection error), a status other than 200, or 200 with a body.
HttpResponses(bodies) ==
    {[status |-> "error"], [status |-> "other"]}
        \cup {[status |-> "ok", body |-> b] : b \in bodies}

\* Variant of Finish in which a success resets the count but does not
\* store the time.
Finish_without_timestamp(k, r, ec, success) ==
    /\ results' = [results EXCEPT ![k] = r]
    /\ error_count' = [error_count EXCEPT ![k] = ec]
    /\ last_successful_call' = last_successful_call
    /\ UNCHANGED <<config, ambient, pc, lat, lon, rand, combined_data, data_source_errors>>

\* An adapter call finishes with outcome r and the given health counters.
Finish(k, r, ec, success) ==
    /\ results' = [results EXCEPT ![k] = r]
    /\ error_count' = [error_count EXCEPT ![k] = ec]
    /\ last_successful_call' =
          IF success THEN [last_successful_call EXCEPT ![k] = Now]
          ELSE last_successful_call
    /\ UNCHANGED <<config, ambient, pc, lat, lon, rand, combined_data, data_source_errors>>

\* get_comprehensive_air_quality is called (lines 525-537): the four
\* adapter calls are created and gathered.
Request ==
    /\ pc = "idle"
    /\ \E c \in Coords : lat' = c[1] /\ lon' = c[2]
    /\ pc' = "gather"
    /\ UNCHANGED <<config, ambient, results, rand, combined_data, data_source_errors,
                   error_count, last_successful_call>>

\* What one adapter call does, as a run: the provider requests it issues
\* and the synthesizer calls it makes, in order (events), the outcome it
\* returns (r), and the health counters it leaves (ec, success).

\* A provider request, with what came back: "error" (the client raised),
\* "other" (a response the adapter cannot use), "empty" or "data".
Query(name, got) == [ev |-> name, got |-> got]

\* A call of the adapter's synthesizer.
Synthesized == [ev |-> "synthesize", got |-> "reading"]

Run(events, r, ec, success) ==
    [events |-> events, r |-> r, ec |-> ec, success |-> success]

\* What an OpenAQ response carries.
GotMeasurements(response) ==
    IF response.status # "ok" THEN response.status
    ELSE IF response.body = <<>> THEN "empty" ELSE "data"

\* TempoDataSource.get_satellite_data (lines 41-62).
satellite_runs ==
    IF ~NASA_TEMPO_TOKEN
    THEN {Run(<<Synthesized>>, generate_mock_tempo_data(lat, lon),
              error_count["tempo"], FALSE)}
    ELSE IF OutsideCoverage(lat, lon)
    THEN {Run(<<>>, NoData, error_count["tempo"], FALSE)}
    ELSE {Run(<<Synthesized>>, generate_mock_tempo_data(lat, lon), 0, TRUE)}

\* Variant of ground_runs_broader that synthesizes at once, without the
\* 100 km request.
ground_runs_broader_skipped(first) ==
    {Run(<<Query("nearby", GotMeasurements(first)), Synthesized>>, mock,
         error_count["openaq"], FALSE) :
        mock \in generate_mock_openaq_data(lat, lon)}

\* Lines 151-174 of get_ground_data, after an empty 50 km result: the
\* 100 km request, and the synthesizer when that brings nothing either.
ground_runs_broader(first) ==
    UNION {
        LET events == <<Query("nearby", GotMeasurements(first)),
                        Query("broader", GotMeasurements(broader))>>
        IN  IF broader.status = "ok" /\ broader.body # <<>>
            THEN {Run(events, process_openaq_data(broader.body), 0, TRUE)}
            ELSE {Run(Append(events, Synthesized), mock,
                      IF broader.status = "error" THEN error_count["openaq"] + 1
                      ELSE error_count["openaq"],
                      FALSE) : mock \in generate_mock_openaq_data(lat, lon)}
        : broader \in HttpResponses(MeasurementLists)}

\* Variant of ground_runs_after in which the handler of a failed 50 km
\* request returns None instead of a synthesized Reading.
ground_runs_after_none_on_error(first) ==
    IF first.status \in {"error", "other"}
    THEN {Run(<<Query("nearby", first.status)>>, NoData,
              error_count["openaq"] + 1, FALSE)}
    ELSE IF first.body # <<>>
    THEN {Run(<<Query("nearby", "data")>>, process_openaq_data(first.body),
              0, TRUE)}
    ELSE ground_runs_broader(first)

\* OpenAQDataSource.get_ground_data (lines 124-182).  first and broader are
\* the responses to the 50 km and the 100 km request.  A first response
\* with a status other than 200 leaves the local "measurements" unbound,
\* so line 152 raises and the handler of line 176 runs.
ground_runs_after(first) ==
    IF first.status \in {"error", "other"}
    THEN {Run(<<Query("nearby", first.status), Synthesized>>, mock,
              error_count["openaq"] + 1, FALSE) :
             mock \in generate_mock_openaq_data(lat, lon)}
    ELSE IF first.body # <<>>
    THEN {Run(<<Query("nearby", "data")>>, process_openaq_data(first.body),
              0, TRUE)}
    ELSE ground_runs_broader(first)

\* The runs of get_ground_data over all responses to the 50 km request.
ground_runs ==
    UNION {ground_runs_after(first) : first \in HttpResponses(MeasurementLists)}

\* What the search request of line 439 brings: an exception, a response
\* that is not 200 with status "ok", an empty list of stations, or stations.
SearchResponses == {"error", "other", "empty", "data"}

\* Variant of aqicn_runs_search that falls back to a synthesized ground
\* Reading when the search brings nothing.
aqicn_runs_search_synthesizes(geo) ==
    {Run(<<Query("geo", geo.status), Query("search", "empty"), Synthesized>>,
         mock, error_count["aqicn"], FALSE) :
        mock \in generate_mock_openaq_data(lat, lon)}

\* Lines 438-464 of get_aqicn_data, after a geo lookup without usable data:
\* the keyword search and, for its first station, the station feed.
aqicn_runs_search(geo) ==
    UNION {
        LET events == <<Query("geo", geo.status), Query("search", search)>>
        IN  IF search = "error"
            THEN {Run(events, NoData, error_count["aqicn"] + 1, FALSE)}
            ELSE IF search # "data"
            THEN {Run(events, NoData, error_count["aqicn"], FALSE)}
            ELSE {LET all == Append(events, Query("station",
                                 IF station.status = "ok" THEN "data"
                                 ELSE station.status))
                  IN  IF station.status = "error"
                      THEN Run(all, NoData, error_count["aqicn"] + 1, FALSE)
                      ELSE IF station.status = "ok"
                      THEN Run(all, process_aqicn_data(station.body), 0, TRUE)
                      ELSE Run(all, NoData, error_count["aqicn"], FALSE)
                  : station \in HttpResponses(AqicnPayloads)}
        : search \in SearchResponses}

\* AQICNDataSource.get_aqicn_data (lines 418-470).  geo is the response to
\* the feed/geo request (a body that is not status "ok" with data counts
\* as "other").
aqicn_runs_after(geo) ==
    IF ~WAQI_API_KEY
    THEN {Run(<<>>, NoData, error_count["aqicn"], FALSE)}
    ELSE IF geo.status = "error"
    THEN {Run(<<Query("geo", "error")>>, NoData, error_count["aqicn"] + 1, FALSE)}
    ELSE IF geo.status = "ok"
    THEN {Run(<<Query("geo", "data")>>, process_aqicn_data(geo.body), 0, TRUE)}
    ELSE aqicn_runs_search(geo)

\* The runs of get_aqicn_data over all responses to the geo request.
aqicn_runs ==
    UNION {aqicn_runs_after(geo) : geo \in HttpResponses(AqicnPayloads)}

\* Variant of weather_runs with a circuit breaker: after an error the
\* adapter makes no request.
weather_runs_circuit_breaker ==
    IF ~OPENWEATHER_API_KEY \/ error_count["weather"] > 0
    THEN {Run(<<Synthesized>>, get_mock_weather_data, error_count["weather"], FALSE)}
    ELSE {IF response.status = "error"
          THEN Run(<<Query("weather", "error"), Synthesized>>,
                   get_mock_weather_data, error_count["weather"] + 1, FALSE)
          ELSE IF response.status = "ok"
          THEN Run(<<Query("weather", "data")>>,
                   process_weather_data(response.body), 0, TRUE)
          ELSE Run(<<Query("weather", "other"), Synthesized>>,
                   get_mock_weather_data, error_count["weather"], FALSE)
          : response \in HttpResponses(WeatherPayloads)}

\* WeatherDataSource.get_weather_data (lines 332-360).
weather_runs ==
    IF ~OPENWEATHER_API_KEY
    THEN {Run(<<Synthesized>>, get_mock_weather_data, error_count["weather"], FALSE)}
    ELSE {IF response.status = "error"
          THEN Run(<<Query("weather", "error"), Synthesized>>,
                   get_mock_weather_data, error_count["weather"] + 1, FALSE)
          ELSE IF response.status = "ok"
          THEN Run(<<Query("weather", "data")>>,
                   process_weather_data(response.body), 0, TRUE)
          ELSE Run(<<Query("weather", "other"), Synthesized>>,
                   get_mock_weather_data, error_count["weather"], FALSE)
          : response \in HttpResponses(WeatherPayloads)}

\* The runs of the call gathered for source k (lines 530-535).
RunsOf(k) ==
    CASE k = "tempo" -> satellite_runs
      [] k = "openaq" -> ground_runs
      [] k = "aqicn" -> aqicn_runs
      [] k = "weather" -> weather_runs

get_satellite_data ==
    /\ pc = "gather" /\ results["tempo"] = Pending
    /\ \E run \in satellite_runs : Finish("tempo", run.r, run.ec, run.success)

get_ground_data ==
    /\ pc = "gather" /\ results["openaq"] = Pending
    /\ \E first \in HttpResponses(MeasurementLists) :
          \E run \in ground_runs_after(first) :
              Finish("openaq", run.r, run.ec, run.success)

get_aqicn_data ==
    /\ pc = "gather" /\ results["aqicn"] = Pending
    /\ \E geo \in HttpResponses(AqicnPayloads) :
          \E run \in aqicn_runs_after(geo) :
              Finish("aqicn", run.r, run.ec, run.success)

get_weather_data ==
    /\ pc = "gather" /\ results["weather"] = Pending
    /\ \E run \in weather_runs : Finish("weather", run.r, run.ec, run.success)

\* Variant of AdapterRaises for a gather without return_exceptions: the
\* first exception leaves get_comprehensive_air_quality at once.
AdapterRaises_propagates(k) ==
    /\ pc = "gather" /\ results[k] = Pending
    /\ results' = [results EXCEPT ![k] = RaisedException]
    /\ pc' = "raised"
    /\ UNCHANGED <<config, ambient, lat, lon, rand, combined_data, data_source_errors,
                   error_count, last_successful_call>>

\* An exception escapes adapter call k; asyncio.gather(...,
\* return_exceptions=True) (line 537) stores it as that call's result.
AdapterRaises(k) ==
    /\ pc = "gather" /\ results[k] = Pending
    /\ Finish(k, RaisedException, error_count[k], FALSE)

\* Lines 540-543: an exception counts as None.
DataOf(r) == IF r.kind = "exception" THEN NoData ELSE r

\* Variant of ErrorsOf that also records a source whose adapter returned
\* None.
ErrorsOf_with_none(res) ==
    [k \in {s \in Sources : res[s].kind \in {"exception", "none"}} |-> "exception"]

\* Lines 546-560: one entry per call whose result is an exception.
ErrorsOf(res) ==
    [k \in {s \in Sources : res[s].kind = "exception"} |-> "exception"]

\* Variant of AllAbsent that looks at the two ground sources only.
AllAbsent_ground_only(tempo_data, openaq_data, aqicn_data, weather_data) ==
    ~Present(openaq_data) /\ ~Present(aqicn_data)

\* Line 563: not any([...]).
AllAbsent(tempo_data, openaq_data, aqicn_data, weather_data) ==
    /\ ~Present(tempo_data) /\ ~Present(openaq_data)
    /\ ~Present(aqicn_data) /\ ~Present(weather_data)

\* Lines 537-575 once all four calls have finished: fan-in, emergency
\* synthesis, fusion, and either the return of the result or the TypeError
\* of line 729 leaving get_comprehensive_air_quality.
Complete ==
    /\ pc = "gather"
    /\ \A k \in Sources : results[k] # Pending
    /\ LET tempo_data == DataOf(results["tempo"])
           aqicn_data == DataOf(results["aqicn"])
           weather_data == DataOf(results["weather"])
           emergency == AllAbsent(tempo_data, DataOf(results["openaq"]),
                                  aqicn_data, weather_data)
       IN  \E fallback \in (IF emergency
                            THEN generate_emergency_fallback_data(lat, lon)
                            ELSE {DataOf(results["openaq"])}),
              draw \in FallbackDraws :
              LET openaq_data == fallback
                  uses_draw == PrimaryMetrics(openaq_data, aqicn_data, draw[1],
                                              draw[2]).primary_source = "fallback_model"
              IN  /\ uses_draw \/ draw = <<25, -500>>
                  /\ rand' = draw
                  /\ data_source_errors' = ErrorsOf(results)
                  /\ IF FuseRaises(tempo_data, openaq_data, aqicn_data,
                                   weather_data, draw[1], draw[2])
                     THEN pc' = "raised" /\ combined_data' = combined_data
                     ELSE /\ pc' = "done"
                          /\ combined_data' =
                                fuse_data_sources(tempo_data, openaq_data, aqicn_data,
                                                  weather_data, draw[1], draw[2])
    /\ UNCHANGED <<config, ambient, lat, lon, results, error_count, last_successful_call>>

Next ==
    \/ Request
    \/ get_satellite_data
    \/ get_ground_data
    \/ get_aqicn_data
    \/ get_weather_data
    \/ \E k \in Sources : AdapterRaises(k)
    \/ Complete

Spec == Init /\ [][Next]_vars

---------------------------------------------------------------------------
(* Cancellation of the request while it awaits the gather of line 537.     *)
(* None of the adapters' handlers ("except Exception", lines 59, 176,      *)
(* 356, 466) catches asyncio.CancelledError, so a cancelled call ends at   *)
(* the await it is suspended at and changes no health counter.             *)

\* The outcome of a call that was cancelled.
CancelledCall == [kind |-> "cancelled"]

\* The caller cancels the task that runs get_comprehensive_air_quality
\* while it is suspended in the gather of line 537: the gather future
\* requests the cancellation of every call that has not finished.
Cancel ==
    /\ pc = "gather"
    /\ \E k \in Sources : results[k] = Pending
    /\ pc' = "cancelling"
    /\ UNCHANGED <<config, ambient, lat, lon, results, rand, combined_data,
                   data_source_errors, error_count, last_successful_call>>

\* CancelledError is thrown into call k at the await it is suspended at
\* (the client.get of lines 133, 154, 340, 426, 439, 454), or before its
\* first step, and leaves the call.
DeliverCancel(k) ==
    /\ pc = "cancelling" /\ results[k] = Pending
    /\ results' = [results EXCEPT ![k] = CancelledCall]
    /\ UNCHANGED <<config, ambient, pc, lat, lon, rand, combined_data,
                   data_source_errors, error_count, last_successful_call>>

\* Variant of Abandon in which the request ends without waiting for its
\* calls, which nothing cancels then.
Abandon_orphans ==
    /\ pc = "cancelling"
    /\ pc' = "cancelled"
    /\ UNCHANGED <<config, ambient, lat, lon, results, rand, combined_data,
                   data_source_errors, error_count, last_successful_call>>

\* Once every call has ended, the gather future is cancelled and
\* CancelledError leaves get_comprehensive_air_quality at line 537: lines
\* 540-575 do not run.
Abandon ==
    /\ pc = "cancelling"
    /\ \A k \in Sources : results[k] # Pending
    /\ pc' = "cancelled"
    /\ UNCHANGED <<config, ambient, lat, lon, results, rand, combined_data,
                   data_source_errors, error_count, last_successful_call>>

NextCancel ==
    \/ Next
    \/ Cancel
    \/ \E k \in Sources : DeliverCancel(k)
    \/ Abandon

\* The event loop runs every callback that is ready: a requested
\* cancellation is delivered, and the cancelled gather wakes the request.
SpecCancel ==
    /\ Init /\ [][NextCancel]_vars
    /\ WF_vars(\E k \in Sources : DeliverCancel(k))
    /\ WF_vars(Abandon)

---------------------------------------------------------------------------
(* Requests one after another in one process: the adapters, and with them  *)
(* their health counters, are those of the module-level engine (line 854). *)

\* Number of requests followed.
MaxRequests == 2

\* A request is over and, later, the next one is about to be made.
NextRequest ==
    /\ pc \in {"done", "raised"}
    /\ clock < MaxRequests
    /\ clock' = clock + 1
    /\ pc' = "idle"
    /\ results' = [k \in Sources |-> Pending]
    /\ rand' = <<25, -500>>
    /\ combined_data' = NoResult
    /\ data_source_errors' = <<>>
    /\ lat' = 0
    /\ lon' = 0
    /\ UNCHANGED <<config, error_count, last_successful_call,
                   generator, stream, calls>>

\* Bound on the count a call of another request is followed to.
MaxErrors == 1

\* Whether adapter k makes a provider request at all in this deployment
\* (lines 43, 334, 420: without its credential an adapter returns before
\* its try block; OpenAQ needs none).
MakesRequests(k) ==
    CASE k = "tempo" -> NASA_TEMPO_TOKEN
      [] k = "openaq" -> TRUE
      [] k = "aqicn" -> WAQI_API_KEY
      [] k = "weather" -> OPENWEATHER_API_KEY

\* A call of adapter k made by another, concurrent request ends between two
\* steps of this one: the adapters are shared (line 854), so it leaves its
\* mark on the same counters, as a failure (lines 176-180, 356-358,
\* 466-468) or as a success (lines 144-145, 352-353, 435-436).  The TEMPO
\* adapter's try block makes no request and has nothing to fail on.
ConcurrentFetch(k) ==
    /\ MakesRequests(k)
    /\ \/ /\ k # "tempo"
          /\ error_count[k] < MaxErrors
          /\ error_count' = [error_count EXCEPT ![k] = @ + 1]
          /\ UNCHANGED last_successful_call
       \/ /\ error_count' = [error_count EXCEPT ![k] = 0]
          /\ last_successful_call' = [last_successful_call EXCEPT ![k] = Now]
    /\ UNCHANGED <<config, ambient, pc, lat, lon, results, rand, combined_data,
                   data_source_errors>>

NextHealth ==
    \/ Next
    \/ NextRequest

\* One request, with the calls of concurrent requests ending around it.
NextConcurrent ==
    \/ Next
    \/ \E k \in Sources : ConcurrentFetch(k)

\* The process deployed with or without an OpenWeather key and without the
\* two other credentials: the calls that change a health counter are then
\* those of the OpenAQ adapter and, with the key, of the weather adapter.
InitHealth == Init /\ ~NASA_TEMPO_TOKEN /\ ~WAQI_API_KEY

SpecHealth == InitHealth /\ [][NextHealth]_vars

SpecConcurrent == InitHealth /\ [][NextConcurrent]_vars

---------------------------------------------------------------------------
(* One adapter call of a request followed event by event: "calls" holds    *)
(* the call's adapter and the requests and synthesizer calls it made.      *)

\* The call gathered for source k runs to its end (as Finish), and its
\* events are kept.
Fetch(k) ==
    /\ pc = "gather" /\ results[k] = Pending
    /\ calls = <<>>
    /\ \E run \in RunsOf(k) :
          /\ results' = [results EXCEPT ![k] = run.r]
          /\ error_count' = [error_count EXCEPT ![k] = run.ec]
          /\ last_successful_call' =
                IF run.success THEN [last_successful_call EXCEPT ![k] = Now]
                ELSE last_successful_call
          /\ calls' = <<[fn |-> k, events |-> run.events]>>
    /\ UNCHANGED <<config, clock, generator, stream, pc, lat, lon, rand,
                   combined_data, data_source_errors>>

NextFetch ==
    \/ Request
    \/ \E k \in Sources : Fetch(k)

SpecFetch == Init /\ [][NextFetch]_vars

---------------------------------------------------------------------------
(* The synthesizers and the module-level generator of "random".            *)
(* random.seed(s) (lines 191, 763) puts the generator in a state that      *)
(* depends on s only; a draw returns a value that depends on the state     *)
(* only and moves the generator on.  Which values the generator returns is *)
(* not modelled: an output read for the first time is a free choice, and   *)
(* stream keeps it for every later read of the same output.                *)

\* Number of synthesizer calls followed.
MaxCalls == 2

\* Points the synthesizers are called at: (0.0999, 0) and (0.1001, 0),
\* which both print as "0.100,0.000", and New York.
SynthCoords == {<<999, 0>>, <<1001, 0>>, <<407000, -740000>>}

\* f"{lat:.3f},{lon:.3f}" (lines 190, 761), which the seed is a hash of:
\* the coordinates in thousandths of a degree.
LocationSeed(la, lo) == <<RoundDiv(la, 10), RoundDiv(lo, 10)>>

\* Outputs of the generator in the model: the one for which
\* random.uniform(lo, hi) returns lo and the one for which it returns hi.
RawDraws == {"low", "high"}

\* random.uniform(lo, hi) = lo + (hi - lo) * random() for output r.
Uniform(lo, hi, r) == IF r = "low" THEN lo ELSE hi

\* The outputs the next n draws of generator g read.
Cells(g, n) == [i \in 1..n |-> <<g.seed, g.pos + i - 1>>]

\* What the next n draws of generator g can return: an output already
\* seen is returned again.
DrawsFrom(g, n) ==
    { d \in [1..n -> RawDraws] :
        \A i \in 1..n :
            Cells(g, n)[i] \in DOMAIN stream => stream[Cells(g, n)[i]] = d[i] }

\* stream once those draws returned d.
Remember(g, n, d) ==
    [x \in (DOMAIN stream) \cup {Cells(g, n)[i] : i \in 1..n} |->
        IF x \in DOMAIN stream THEN stream[x]
        ELSE d[CHOOSE i \in 1..n : Cells(g, n)[i] = x]]

\* n draws of generator g return d; fn, called at point c, returns values.
Synthesize(fn, c, g, n, d, values) ==
    /\ Len(calls) < MaxCalls
    /\ calls' = Append(calls, [fn |-> fn, lat |-> c[1], lon |-> c[2],
                               values |-> values])
    /\ stream' = Remember(g, n, d)
    /\ generator' = GeneratorAt(g.seed, g.pos + n)
    /\ UNCHANGED <<config, pc, lat, lon, results, rand, combined_data,
                   data_source_errors, error_count, last_successful_call, clock>>

\* The pollutant values of a synthesized ground Reading.
PollutantValues(reading) ==
    [station |-> reading.stations_data[1].measurements,
     averaged |-> [p \in DOMAIN reading.averaged_measurements |->
                     reading.averaged_measurements[p].value]]

\* _generate_mock_openaq_data(lat, lon) is called (lines 184-245): it
\* seeds the generator from the location and draws three times.
MockGround(c) ==
    LET g == GeneratorAt(LocationSeed(c[1], c[2]), 0)
        r == MockRanges(c[1], c[2])
    IN  \E d \in DrawsFrom(g, 3) :
           Synthesize("ground", c, g, 3, d,
               PollutantValues(mock_openaq_reading(
                   Uniform(r.pm25[1], r.pm25[2], d[1]),
                   Uniform(r.pm10f[1], r.pm10f[2], d[2]),
                   Uniform(r.no2[1], r.no2[2], d[3]))))

\* _generate_mock_tempo_data(lat, lon) is called (lines 64-92): it draws
\* once from the generator as it finds it.
MockSatellite(c) ==
    \E d \in DrawsFrom(generator, 1) :
       Synthesize("satellite", c, generator, 1, d,
           mock_tempo_pollutants(c[1], c[2], Uniform(-500, 1000, d[1])))

\* _generate_emergency_fallback_data(lat, lon) is called (lines 756-806):
\* it seeds the generator from the location and draws six times, the
\* station values first.
EmergencyFallback(c) ==
    LET g == GeneratorAt(LocationSeed(c[1], c[2]), 0)
        u(d, i) == <<Uniform(-500, 500, d[i]), Uniform(-800, 800, d[i + 1]),
                     Uniform(-300, 300, d[i + 2])>>
    IN  \E d \in DrawsFrom(g, 6) :
           Synthesize("emergency", c, g, 6, d,
               PollutantValues(emergency_fallback_reading(c[1], c[2],
                                                          u(d, 1), u(d, 4))))

\* _generate_fallback_aqi() is called (lines 737-754): it draws twice from
\* the generator as it finds it.
FallbackAqi ==
    \E d \in DrawsFrom(generator, 2) :
       Synthesize("fallback_aqi", <<0, 0>>, generator, 2, d,
           generate_fallback_aqi(Uniform(25, 150, d[1]),
                                 Uniform(-500, 500, d[2])).overall_aqi)

NextSynth ==
    \/ \E c \in SynthCoords : MockGround(c)
    \/ \E c \in SynthCoords : MockSatellite(c)
    \/ \E c \in SynthCoords : EmergencyFallback(c)
    \/ FallbackAqi

\* The process as deployed without credentials, the configuration in
\* which the satellite and the weather adapter synthesize (lines 43, 334);
\* no synthesizer reads the configuration.
InitSynth ==
    Init /\ ~NASA_TEMPO_TOKEN /\ ~WAQI_API_KEY /\ ~OPENWEATHER_API_KEY

\* Synthesizer calls in one process, in any order.
SpecSynth == InitSynth /\ [][NextSynth]_vars

---------------------------------------------------------------------------
(* The three converters called on their own: "calls" holds each call's     *)
(* converter, its argument (hundredths) and the index it returned          *)
(* (thousandths).                                                          *)

\* Concentrations the converters are called with: a negative value, 0, the
\* ends of bands of the three tables with the values halfway to the next
\* band (12.05, 54.5, 70.5, 53.5), and values at and above the top of the
\* tables.
Concentrations ==
    {-1000, 0, 1200, 1205, 1210, 5300, 5350, 5400, 5450, 5500, 7000, 7050,
     10000, 36000, 49850, 50040, 50050, 80000}

Converters == {"pm25", "o3", "no2"}

\* _pm25_to_aqi, _o3_to_aqi or _no2_to_aqi is called with c (lines 808-851).
Convert(param, c) ==
    /\ Len(calls) < MaxCalls
    /\ calls' = Append(calls, [fn |-> param, c |-> c,
                               index |-> ConvertedIndex(param, c)])
    /\ UNCHANGED <<config, pc, lat, lon, results, rand, combined_data,
                   data_source_errors, error_count, last_successful_call,
                   clock, generator, stream>>

NextConvert == \E param \in Converters, c \in Concentrations : Convert(param, c)

SpecConvert == InitSynth /\ [][NextConvert]_vars

---------------------------------------------------------------------------
(* _process_openaq_data called on its own with a payload: "calls" holds    *)
(* the payload and the Reading returned.                                   *)

\* Longest payload the function is called with.
MaxFetched == 4

\* Entries of the payloads: those of StationInputs and a station E, 1 km
\* away, that reports pm25 12.1.
FetchedStations ==
    StationInputs \cup
        { [location |-> "E", distance_km |-> 100,
           measurements |-> [p \in {"pm25"} |-> Some(1210)]] }

\* _process_openaq_data(measurements, lat, lon) is called (lines 247-289)
\* with a non-empty payload, in any order of its entries.
ProcessPayload(measurements) ==
    /\ calls = <<>>
    /\ measurements # <<>>
    /\ calls' = <<[fn |-> "process_openaq_data", measurements |-> measurements,
                   reading |-> process_openaq_data(measurements)]>>
    /\ UNCHANGED <<config, pc, lat, lon, results, rand, combined_data,
                   data_source_errors, error_count, last_successful_call,
                   clock, generator, stream>>

NextProcess ==
    \E measurements \in SeqsUpTo(FetchedStations, MaxFetched) :
        ProcessPayload(measurements)

SpecProcess == InitSynth /\ [][NextProcess]_vars

---------------------------------------------------------------------------
(* What each adapter call can return at the current point and             *)
(* configuration (a Reading or None), used to compare a run in which a     *)
(* call fails with the run in which it returns.                            *)

SatelliteOutcomes ==
    IF NASA_TEMPO_TOKEN /\ OutsideCoverage(lat, lon) THEN {NoData}
    ELSE {generate_mock_tempo_data(lat, lon)}

GroundOutcomes ==
    {process_openaq_data(ms) : ms \in MeasurementLists \ {<<>>}}
        \cup generate_mock_openaq_data(lat, lon)

AqicnOutcomes ==
    IF ~WAQI_API_KEY THEN {NoData}
    ELSE {NoData} \cup {process_aqicn_data(b) : b \in AqicnPayloads}

WeatherOutcomes ==
    IF ~OPENWEATHER_API_KEY THEN {get_mock_weather_data}
    ELSE {get_mock_weather_data} \cup {process_weather_data(b) : b \in WeatherPayloads}

AdapterOutcomes(k) ==
    CASE k = "tempo" -> SatelliteOutcomes
      [] k = "openaq" -> GroundOutcomes
      [] k = "aqicn" -> AqicnOutcomes
      [] k = "weather" -> WeatherOutcomes

\* Every outcome the adapter actions store is one of these.
OutcomesOK ==
    pc # "idle" =>
        \A k \in Sources :
            results[k] \in {Pending, RaisedException} \cup AdapterOutcomes(k)

---------------------------------------------------------------------------
(* Properties.                                                             *)

Done == pc = "done"

InRange(n) == 0 <= n /\ n <= 500

Clamp(n, lo, hi) == IF n < lo THEN lo ELSE IF n > hi THEN hi ELSE n

\* The Reading an adapter call handed to the pipeline, if any.
Returned(k) == results[k].kind = "data"

Failed(k) == results[k].kind = "exception"

EmergencyUsed ==
    /\ combined_data.raw_data["openaq"].kind = "data"
    /\ combined_data.raw_data["openaq"].source = "OpenAQ (Emergency Fallback)"

\* C1: in every result, overall_index is a number in [0, 500] and, when
\* present, weather_adjusted_index is in [0, 500].
C1_IndicesInRange ==
    Done =>
        /\ combined_data.overall_aqi.t = "int"
        /\ InRange(combined_data.overall_aqi.v)
        /\ \/ IsNone(combined_data.weather_adjusted_aqi)
           \/ InRange(combined_data.weather_adjusted_aqi[1])

\* C1, reached case: a result whose weather-adjusted index exceeds 500
\* although the adapters behaved (no exception escaped).
C1_AdjustedAbove500 ==
    /\ Done
    /\ \A k \in Sources : ~Failed(k)
    /\ ~IsNone(combined_data.weather_adjusted_aqi)
    /\ combined_data.weather_adjusted_aqi[1] > 500

\* C2: with a weather Reading, weather_adjusted_index equals
\* clamp(round(overall_index * factor), 0, 500) with factor 0.9 for
\* good_dispersion, 1.1 for poor_dispersion or stagnant, 0.8 for cleansing
\* and 1.0 otherwise.
C2_AdjustedIsClampedRound ==
    (Done /\ Returned("weather") /\ combined_data.overall_aqi.t = "int") =>
        LET impact == results["weather"].air_quality_impact
            factor == CASE impact = "good_dispersion" -> 9
                        [] impact \in {"poor_dispersion", "stagnant"} -> 11
                        [] impact = "cleansing" -> 8
                        [] OTHER -> 10
        IN  combined_data.weather_adjusted_aqi =
                Some(Clamp(RoundDiv(combined_data.overall_aqi.v * factor, 10), 0, 500))

\* C2, reached case: an in-range product that truncation and rounding
\* send to different integers.
C2_TruncationDiffers ==
    /\ Done /\ Returned("weather")
    /\ combined_data.overall_aqi = JInt(51)
    /\ combined_data.weather_impact = Some("good_dispersion")
    /\ combined_data.weather_adjusted_aqi = Some(45)

\* C3: data_quality is "high" if and only if the satellite Reading is
\* present and the primary or the alternate ground Reading is present and
\* the weather Reading is present; otherwise it is "medium".
C3_DataQuality ==
    Done =>
        LET all_three == /\ Returned("tempo")
                         /\ (Returned("openaq") \/ Returned("aqicn"))
                         /\ Returned("weather")
        IN  combined_data.data_quality = (IF all_three THEN "high" ELSE "medium")

\* C3, reached case: a "medium" result that lacks only the weather Reading.
C3_Witness ==
    /\ Done
    /\ combined_data.data_quality = "medium"
    /\ Returned("tempo") /\ Returned("openaq") /\ Failed("weather")

\* C4: get_comprehensive_air_quality never raises, whatever the four
\* adapter outcomes are.
C4_NeverRaises == pc # "raised"

\* C4, reached case: the call raises although every adapter returned.
C4_RaisesWithoutAdapterFailure ==
    pc = "raised" /\ \A k \in Sources : ~Failed(k)

\* C5: every adapter failure is recorded as an entry for that source in
\* the result's errors map (a failure handled inside the adapter shows as
\* a positive error_count; one that escapes as an exception result).
C5_FailuresRecorded ==
    Done =>
        \A k \in Sources :
            (Failed(k) \/ error_count[k] > 0) => k \in DOMAIN data_source_errors

\* C5, reached case: all four calls raise and errors has four entries.
C5_AllFourRecorded ==
    /\ Done
    /\ \A k \in Sources : Failed(k)
    /\ DOMAIN data_source_errors = Sources

\* C6: confidence is "low" when the index comes from the emergency
\* fallback Reading; when it is computed from ground averaged measurements
\* otherwise, it is "high" if at least 2 of pm25, o3, no2 contributed and
\* "medium" if fewer did.
C6_Confidence ==
    Done =>
        /\ EmergencyUsed => combined_data.confidence = "low"
        /\ (~EmergencyUsed /\ combined_data.primary_source = "ground_sensors") =>
              combined_data.confidence =
                 (IF Cardinality((DOMAIN combined_data.pollutants)
                                    \cap {"pm25", "o3", "no2"}) >= 2
                  THEN "high" ELSE "medium")

\* C6, reached case: a result fused from the emergency Reading.
C6_EmergencyResult == Done /\ EmergencyUsed /\ combined_data.confidence = "high"

\* C7: if all four Readings are absent the pipeline fuses one synthesized
\* emergency ground Reading (ground_sensors true, raw ground Reading set,
\* the other raw Readings absent); if at least one Reading is present the
\* raw ground Reading is what the ground adapter gave and no emergency
\* Reading is synthesized.
C7_EmergencySynthesis ==
    Done =>
        IF \A k \in Sources : ~Returned(k)
        THEN /\ combined_data.raw_data["openaq"]
                    \in generate_emergency_fallback_data(lat, lon)
             /\ combined_data.data_sources.ground_sensors
             /\ \A k \in Sources \ {"openaq"} : combined_data.raw_data[k] = NoData
        ELSE /\ combined_data.raw_data["openaq"] = DataOf(results["openaq"])
             /\ \A k \in Sources :
                   combined_data.raw_data[k].kind = "data" =>
                      combined_data.raw_data[k].source # "OpenAQ (Emergency Fallback)"

\* C7, reached case: a result after all four Readings were absent.
C7_Witness ==
    /\ Done
    /\ \A k \in Sources : ~Returned(k)
    /\ combined_data.raw_data["openaq"].kind = "data"

\* C8: outside the coverage box the satellite adapter returns None whether
\* or not a credential is configured, so the satellite flag is false and
\* data_quality is "medium".
C8_NoSatelliteOutsideCoverage ==
    (pc # "idle" /\ OutsideCoverage(lat, lon)) =>
        /\ results["tempo"] \in {Pending, RaisedException, NoData}
        /\ Done => /\ ~combined_data.data_sources.satellite
                   /\ combined_data.data_quality = "medium"

\* C8, reached case: outside the box without a credential, a synthesized
\* satellite Reading and a "high" result.
C8_SynthesizedOutsideCoverage ==
    /\ Done /\ OutsideCoverage(lat, lon) /\ ~NASA_TEMPO_TOKEN
    /\ combined_data.data_sources.satellite
    /\ combined_data.data_quality = "high"

\* The data_sources flag that reports source k.
FlagOf(data, k) ==
    CASE k = "tempo" -> data.data_sources.satellite
      [] k = "openaq" -> data.data_sources.ground_sensors
      [] k = "aqicn" -> data.data_sources.aqicn
      [] k = "weather" -> data.data_sources.weather

\* The calls of the finished request that failed with an exception.
FailedCalls == {k \in Sources : Failed(k)}

\* The results of the same run had call k returned r instead of failing.
ResultsWith(k, r) == [results EXCEPT ![k] = r]

\* That run raises in the fusion step.
ReferenceRaises(k, r) ==
    LET res == ResultsWith(k, r)
    IN  FuseRaises(res["tempo"], res["openaq"], res["aqicn"], res["weather"],
                   rand[1], rand[2])

\* The value that run returns, under the same random draws.
Reference(k, r) ==
    LET res == ResultsWith(k, r)
    IN  fuse_data_sources(res["tempo"], res["openaq"], res["aqicn"], res["weather"],
                          rand[1], rand[2])

\* The runs to compare: exactly one call failed, the request returned, and
\* the run in which that call returns a Reading r returns as well.
ComparableRuns(k, r) ==
    /\ Done /\ FailedCalls = {k}
    /\ r \in AdapterOutcomes(k) /\ r.kind = "data"
    /\ ~ReferenceRaises(k, r)

C10_PrimarySelection ==
    Done =>
        IF Returned("aqicn") /\ Truthy(results["aqicn"].overall_aqi)
        THEN /\ combined_data.overall_aqi = results["aqicn"].overall_aqi
             /\ combined_data.primary_source = "aqicn"
        ELSE Returned("openaq") =>
                /\ combined_data.primary_source = "ground_sensors"
                /\ combined_data.overall_aqi =
                      calculate_primary_aqi(results["openaq"], rand[1], rand[2]).overall_aqi

\* C10, reached case: an AQICN Reading without an index hides an OpenAQ
\* Reading that has averaged measurements; the index is the random one of
\* the fallback model.
C10_FallbackDespiteOpenAQ ==
    /\ Done
    /\ Returned("aqicn") /\ ~Truthy(results["aqicn"].overall_aqi)
    /\ Returned("openaq") /\ DOMAIN results["openaq"].averaged_measurements # {}
    /\ combined_data.primary_source = "fallback_model"

\* The per-pollutant indices the result reports for pm25, o3 and no2
\* (pollutants[p]["aqi"], lines 645, 657, 669).
ReportedIndices ==
    [p \in (DOMAIN combined_data.pollutants) \cap {"pm25", "o3", "no2"} |->
        combined_data.pollutants[p].aqi]

\* C11: when the overall index is computed from ground averaged
\* measurements, it equals the maximum of the per-pollutant indices the
\* result reports for pm25, o3 and no2, and 50 when none of them is present.
C11_DominantPollutant ==
    (Done /\ combined_data.primary_source = "ground_sensors") =>
        IF DOMAIN ReportedIndices = {}
        THEN combined_data.overall_aqi = JInt(50)
        ELSE combined_data.overall_aqi.v * 1000 =
                MaxOver(ReportedIndices, DOMAIN ReportedIndices)

\* C11, reached case: the largest reported index is positive and has a
\* fractional part, and the overall index is that index cut to an integer.
C11_TruncatedMaximum ==
    /\ Done /\ combined_data.primary_source = "ground_sensors"
    /\ DOMAIN ReportedIndices # {}
    /\ LET m == MaxOver(ReportedIndices, DOMAIN ReportedIndices)
       IN  /\ m > 0 /\ m % 1000 # 0
           /\ combined_data.overall_aqi = JInt(TruncDiv(m, 1000))

\* The satellite Reading of the request has an NO2 column value.
HasNo2Column ==
    Returned("tempo") /\ "no2" \in DOMAIN results["tempo"].pollutants

\* C12 as stated: with a satellite Reading that has an NO2 column, the
\* result has a no2_satellite entry whose value is the column value times
\* 0.1 and satellite_enhancement is true; without a satellite Reading it
\* has neither.  (Column in hundredths, estimate in hundredths.)
C12_SatelliteEnhancementAsStated ==
    Done =>
        /\ HasNo2Column =>
              /\ "no2_satellite" \in DOMAIN combined_data.pollutants
              /\ 10 * combined_data.pollutants["no2_satellite"].value =
                    results["tempo"].pollutants["no2"].value
              /\ combined_data.satellite_enhancement
        /\ ~Returned("tempo") =>
              /\ "no2_satellite" \notin DOMAIN combined_data.pollutants
              /\ ~combined_data.satellite_enhancement

\* C12 as amended: the value of the no2_satellite entry is the column value
\* times 0.1 rounded to two decimal places (it is within half a hundredth
\* of the product); the rest as stated.
C12_SatelliteEnhancement ==
    Done =>
        /\ HasNo2Column =>
              /\ "no2_satellite" \in DOMAIN combined_data.pollutants
              /\ Abs(10 * combined_data.pollutants["no2_satellite"].value
                     - results["tempo"].pollutants["no2"].value) <= 5
              /\ combined_data.satellite_enhancement
        /\ ~Returned("tempo") =>
              /\ "no2_satellite" \notin DOMAIN combined_data.pollutants
              /\ ~combined_data.satellite_enhancement

\* C12, reached case: a column of 1.56 gives the estimate 0.16, not 0.156.
C12_Witness ==
    /\ Done /\ HasNo2Column
    /\ results["tempo"].pollutants["no2"].value = 156
    /\ combined_data.pollutants["no2_satellite"].value = 16
    /\ combined_data.satellite_enhancement

\* The adapter call gathered for source k (lines 530-535).
CallOf(k) ==
    CASE k = "tempo" -> get_satellite_data
      [] k = "openaq" -> get_ground_data
      [] k = "aqicn" -> get_aqicn_data
      [] k = "weather" -> get_weather_data

\* C13: a request starts the four adapter calls; fusion (and the end of the
\* request) comes only after all four have reached an outcome; while the
\* request waits, a call that has no outcome yet can still finish, whatever
\* the other calls did, and an outcome once reached is kept.
C13_FanOutFanIn ==
    /\ [][(pc = "idle" /\ pc' = "gather") =>
             \A k \in Sources : results'[k] = Pending]_vars
    /\ [](pc \in {"done", "raised"} =>
             \A k \in Sources : results[k] # Pending)
    /\ [](pc = "gather" =>
             \A k \in Sources : results[k] = Pending => ENABLED CallOf(k))
    /\ [][\A k \in Sources :
             results[k] # Pending => results'[k] = results[k]]_vars

\* C13, reached case: the request is over, the satellite call failed with
\* an exception and the three other calls each delivered a Reading.
C13_Witness ==
    /\ Done /\ Failed("tempo")
    /\ Returned("openaq") /\ Returned("aqicn") /\ Returned("weather")
    /\ combined_data.data_sources.ground_sensors
    /\ combined_data.data_sources.weather

\* C14: once the caller has cancelled a request whose adapter calls are
\* pending, eventually the request has ended with none of its calls still
\* running, and no fusion result is ever produced for it.
C14_CancellationPropagates ==
    /\ (pc = "cancelling") ~>
          (pc = "cancelled" /\ \A k \in Sources : results[k] # Pending)
    /\ [](pc \in {"cancelling", "cancelled"} => combined_data = NoResult)
    /\ [][pc = "cancelling" => pc' \in {"cancelling", "cancelled"}]_vars
    /\ [][pc = "cancelled" => pc' = "cancelled"]_vars

\* C14, reached case: the request was cancelled after the satellite call
\* had returned; the three calls still pending were cancelled and there is
\* no result.
C14_Witness ==
    /\ pc = "cancelled"
    /\ Returned("tempo")
    /\ \A k \in Sources \ {"tempo"} : results[k] = CancelledCall
    /\ combined_data = NoResult

\* C15: two calls of the same synthesizer (ground mock, satellite mock,
\* emergency fallback) at coordinates that round to the same values at 3
\* decimal places return the same pollutant values, whatever was called in
\* between.
C15_FallbackDeterminism ==
    \A i, j \in DOMAIN calls :
        (/\ calls[i].fn = calls[j].fn
         /\ calls[i].fn \in {"ground", "satellite", "emergency"}
         /\ LocationSeed(calls[i].lat, calls[i].lon) =
               LocationSeed(calls[j].lat, calls[j].lon))
        => calls[i].values = calls[j].values

\* C15, reached case: the ground mock was called at (0.0999, 0) and at
\* (0.1001, 0), got the same seed and returned different values.
C15_SameSeedDifferentValues ==
    /\ Len(calls) = 2
    /\ calls[1].fn = "ground" /\ calls[2].fn = "ground"
    /\ <<calls[1].lat, calls[1].lon>> = <<999, 0>>
    /\ <<calls[2].lat, calls[2].lon>> = <<1001, 0>>
    /\ LocationSeed(999, 0) = LocationSeed(1001, 0)
    /\ calls[1].values # calls[2].values

\* C16 as stated: across the fetches of one adapter, error_count never
\* decreases and last_successful_call never moves backwards.
C16_CountersMonotonicAsStated ==
    [][\A k \in Sources :
          /\ error_count'[k] >= error_count[k]
          /\ \/ last_successful_call'[k] = last_successful_call[k]
             \/ /\ ~IsNone(last_successful_call'[k])
                /\ \/ IsNone(last_successful_call[k])
                   \/ last_successful_call'[k][1] >= last_successful_call[k][1]]_vars

\* C16: across the fetches of one adapter, last_successful_call never moves
\* backwards: it changes only by being set to the current time, which is
\* not earlier than the time it held.  error_count counts consecutive
\* errors: it changes only by growing by one, or by returning to 0 in the
\* step that sets last_successful_call to the current time.
C16_HealthCounters ==
    [][\A k \in Sources :
          /\ \/ error_count'[k] = error_count[k]
             \/ error_count'[k] = error_count[k] + 1
             \/ error_count'[k] = 0 /\ last_successful_call'[k] = Some(clock)
          /\ \/ last_successful_call'[k] = last_successful_call[k]
             \/ /\ last_successful_call'[k] = Some(clock)
                /\ error_count'[k] = 0
                /\ \/ IsNone(last_successful_call[k])
                   \/ last_successful_call[k][1] <= clock]_vars

\* C16 witness: in the second request the OpenAQ adapter has failed after
\* an earlier success (its count is 1, its time still that of the first
\* request), and the weather adapter has just succeeded (count 0, time of
\* the second request).
C16_Witness ==
    /\ clock = 2
    /\ error_count["openaq"] = 1
    /\ last_successful_call["openaq"] = Some(1)
    /\ error_count["weather"] = 0
    /\ last_successful_call["weather"] = Some(2)

\* The results the fusion step can return for the outcomes of the four
\* calls and the draws made, the emergency synthesis of line 566 included.
FusionResults ==
    LET tempo_data == DataOf(results["tempo"])
        aqicn_data == DataOf(results["aqicn"])
        weather_data == DataOf(results["weather"])
        ground == DataOf(results["openaq"])
    IN  {fuse_data_sources(tempo_data, openaq_data, aqicn_data, weather_data,
                           rand[1], rand[2]) :
            openaq_data \in (IF AllAbsent(tempo_data, ground, aqicn_data, weather_data)
                             THEN generate_emergency_fallback_data(lat, lon)
                             ELSE {ground})}

\* C17: the health counters never influence fusion.  Whatever the counters
\* hold, and however the calls of concurrent requests change them, (1) the
\* outcomes a call that has not finished can reach, over all provider
\* responses, are those its adapter has for the request's point and the
\* deployment's credentials, and (2) the result is the fusion of the four
\* outcomes and the draws, none of which holds a counter.
C17_CountersDoNotInfluence ==
    /\ pc = "gather" =>
          \A k \in Sources :
              results[k] = Pending =>
                  {run.r : run \in RunsOf(k)} = AdapterOutcomes(k)
    /\ Done => combined_data \in FusionResults

\* C17 witness: a request has returned a result built on a live OpenAQ
\* Reading and a live weather Reading although, by then, concurrent calls
\* had left an error on the OpenAQ adapter and one on the weather adapter.
C17_Witness ==
    /\ Done
    /\ Returned("openaq") /\ results["openaq"].source = "OpenAQ"
    /\ Returned("weather") /\ results["weather"] # get_mock_weather_data
    /\ error_count["openaq"] = 1
    /\ error_count["weather"] = 1
    /\ combined_data.data_sources.ground_sensors

\* The events of the followed call when it is the call of adapter k.
Followed(k) == calls # <<>> /\ calls[1].fn = k

EventsOf(events, name) == {i \in DOMAIN events : events[i].ev = name}

\* C18: in one fetch of the ground adapter, if the 50 km query returns an
\* empty result set then exactly one 100 km query is issued, right after
\* it, and a synthesized Reading is returned only after that 100 km query
\* yielded no measurements either; the 100 km query is never issued when
\* the 50 km query returned measurements.  (In every fetch the 50 km query
\* is issued once and first, and the Reading returned is a synthesized one
\* exactly when the synthesizer was called, which is then the last event.)
C18_GroundOrdering ==
    Followed("openaq") =>
        LET events == calls[1].events
            broader == EventsOf(events, "broader")
            synthesis == EventsOf(events, "synthesize")
            synthesized == results["openaq"].source # "OpenAQ"
        IN  /\ EventsOf(events, "nearby") = {1}
            /\ synthesized <=> synthesis # {}
            /\ synthesis \subseteq {Len(events)}
            /\ events[1].got = "empty" =>
                  /\ broader = {2}
                  /\ synthesized =>
                        /\ events[2].got # "data"
                        /\ synthesis = {3}
            /\ events[1].got = "data" => broader = {}

\* C18 witness: the 50 km query came back empty, the 100 km query too, and
\* the call returned a synthesized Reading.
C18_Witness ==
    /\ Followed("openaq")
    /\ calls[1].events = <<Query("nearby", "empty"), Query("broader", "empty"),
                           Synthesized>>
    /\ results["openaq"].source = "OpenAQ (Enhanced)"

\* C19: without credentials a fetch of the AQICN adapter returns None
\* without any request and without synthesizing.  With credentials the
\* geo lookup is the first request; the keyword search is issued only
\* after the geo lookup completed without usable data, and the station
\* feed only after a search that found stations.  The outcome is always a
\* live Reading or None, never a synthesized Reading.
C19_AqicnFetch ==
    Followed("aqicn") =>
        LET events == calls[1].events
            r == results["aqicn"]
        IN  /\ ~WAQI_API_KEY => events = <<>> /\ r = NoData
            /\ WAQI_API_KEY => EventsOf(events, "geo") = {1}
            /\ EventsOf(events, "search") \subseteq {2}
            /\ EventsOf(events, "search") = {2} => events[1].got = "other"
            /\ EventsOf(events, "station") \subseteq {3}
            /\ EventsOf(events, "station") = {3} => events[2].got = "data"
            /\ EventsOf(events, "synthesize") = {}
            /\ \/ r = NoData
               \/ /\ r.kind = "data"
                  /\ r.source = "AQICN (World Air Quality Index)"
                  /\ events[Len(events)].got = "data"
                  /\ events[Len(events)].ev \in {"geo", "station"}

\* C19 witness: with credentials, the geo lookup gave no usable data, the
\* search found stations, and the first station's feed gave a live Reading.
C19_Witness ==
    /\ Followed("aqicn")
    /\ WAQI_API_KEY
    /\ calls[1].events = <<Query("geo", "other"), Query("search", "data"),
                           Query("station", "data")>>
    /\ results["aqicn"].kind = "data"

\* The result reports a PM2.5 index converted from a ground concentration
\* (lines 641-650).
ConvertedPm25 ==
    /\ Done /\ combined_data.primary_source = "ground_sensors"
    /\ "pm25" \in DOMAIN combined_data.pollutants

\* C20: for a PM2.5 concentration c in [0, 500.4] the index is the linear
\* interpolation of the band of the six-band table that c belongs to,
\* rounded to the nearest integer, and the index is 500 only for c at the
\* upper end of the top band (or above 500.4).
C20_Pm25Conversion ==
    ConvertedPm25 =>
        LET c == combined_data.pollutants["pm25"].value
            index == combined_data.pollutants["pm25"].aqi
        IN  (0 <= c /\ c <= 50040) =>
               /\ index % 1000 = 0
               /\ \E i \in DOMAIN Pm25Breakpoints :
                     LET b == Pm25Breakpoints[i]
                         width == b[2] - b[1]
                         exact == b[3] * width + (b[4] - b[3]) * (c - b[1])
                     IN  /\ b[1] <= c /\ c <= b[2]
                         /\ 2 * Abs((index \div 1000) * width - exact) <= width
               /\ index = 500 * 1000 => c >= Pm25Breakpoints[6][1]

\* C20, failing case: the two stations of the payload report 12.0 and 12.1,
\* their average 12.05 lies between the first and the second band, and the
\* index reported for it, and the overall index, is 500.
C20_GapConcentration ==
    /\ ConvertedPm25
    /\ combined_data.pollutants["pm25"].value = 1205
    /\ combined_data.pollutants["pm25"].aqi = 500 * 1000
    /\ combined_data.overall_aqi = JInt(500)

\* C21: each converter is monotonic non-decreasing: of two calls of the
\* same converter, the one with the smaller concentration returns an index
\* that is not larger.
C21_ConvertersMonotonic ==
    \A i, j \in DOMAIN calls :
        (calls[i].fn = calls[j].fn /\ calls[i].c < calls[j].c) =>
            calls[i].index <= calls[j].index

\* C21, failing case: _pm25_to_aqi returned 500 for 12.05 and 51 for 12.1.
C21_GapAboveNextBand ==
    /\ Len(calls) = 2
    /\ calls[1] = [fn |-> "pm25", c |-> 1205, index |-> 500 * 1000]
    /\ calls[2] = [fn |-> "pm25", c |-> 1210, index |-> 51 * 1000]

\* C22: for every concentration, negative ones and ones above the top band
\* included, each converter returns an index in [0, 500]: 0 for a negative
\* concentration, and 500 for a PM2.5 concentration above 500.4.
C22_ConvertersClamp ==
    \A i \in DOMAIN calls :
        /\ 0 <= calls[i].index /\ calls[i].index <= 500 * 1000
        /\ calls[i].c < 0 => calls[i].index = 0
        /\ (calls[i].fn = "pm25" /\ calls[i].c > Pm25Breakpoints[6][2]) =>
              calls[i].index = 500 * 1000

\* C22, failing case: for -10.0 _pm25_to_aqi returned 500 and _o3_to_aqi a
\* negative index.
C22_NegativeConcentration ==
    /\ Len(calls) = 2
    /\ calls[1] = [fn |-> "pm25", c |-> -1000, index |-> 500 * 1000]
    /\ calls[2].fn = "o3" /\ calls[2].c = -1000 /\ calls[2].index < 0

\* The stations of the processed payload, one per location.
FetchedOf(call) == GroupStations(call.measurements, <<>>)

\* The sums of the weighted average of param over the stations that report
\* it, both multiplied by a common multiple P of their (distance_km + 1),
\* to keep them whole: total_value * P / 100 and total_weight * P / 100.
WeightedSums(stations, param) ==
    LET idx == Reporting(stations, param)
        P == LcmOver(stations, idx)
        w == [i \in idx |-> P \div (stations[i].distance_km + 100)]
    IN  [total_value |->
            SumOver([i \in idx |-> stations[i].measurements[param][1] * w[i]], idx),
         total_weight |-> SumOver(w, idx),
         product |-> P]

\* The pollutants some station of the payload reports a value for.
ReportedParams(stations) ==
    {p \in UNION {DOMAIN stations[i].measurements : i \in DOMAIN stations} :
        Reporting(stations, p) # {}}

\* The confidence of C23 for param, min(total_weight * 10, 100), in
\* thousandths (cut), and that it lies in (0, 100].
ConfidenceAsStated(stations, param, confidence) ==
    LET s == WeightedSums(stations, param)
    IN  /\ confidence = Min((1000 * 1000 * s.total_weight) \div s.product, 100 * 1000)
        /\ 0 < confidence /\ confidence <= 100 * 1000

\* C23 as stated: the averaged value of every pollutant reported by at
\* least one station is exactly total_value / total_weight over the
\* stations that report it, its confidence is min(total_weight * 10, 100)
\* in (0, 100], and the other pollutants are omitted.
C23_WeightedAverageAsStated ==
    \A n \in DOMAIN calls :
        LET stations == FetchedOf(calls[n])
            averaged == calls[n].reading.averaged_measurements
        IN  /\ DOMAIN averaged = ReportedParams(stations)
            /\ \A p \in DOMAIN averaged :
                  LET s == WeightedSums(stations, p)
                  IN  /\ s.total_weight > 0
                      /\ averaged[p].value * s.total_weight = s.total_value
                      /\ ConfidenceAsStated(stations, p, averaged[p].confidence)

\* C23: the averaged value of every pollutant reported by at least one
\* station is total_value / total_weight over the stations that report it,
\* with weights 1/(distance_km + 1) > 0, rounded to two decimals (so two
\* stations at the same distance give their arithmetic mean, rounded); its
\* confidence is min(total_weight * 10, 100) in (0, 100]; the other
\* pollutants are omitted.
C23_WeightedAverage ==
    \A n \in DOMAIN calls :
        LET stations == FetchedOf(calls[n])
            averaged == calls[n].reading.averaged_measurements
        IN  /\ DOMAIN averaged = ReportedParams(stations)
            /\ \A p \in DOMAIN averaged :
                  LET s == WeightedSums(stations, p)
                  IN  /\ s.total_weight > 0
                      /\ 2 * Abs(averaged[p].value * s.total_weight - s.total_value)
                            <= s.total_weight
                      /\ ConfidenceAsStated(stations, p, averaged[p].confidence)

\* C23 witness: the payload is station A (0 km, pm25 12.0), station E
\* (1 km, pm25 12.1) and station D (1 km, pm25 null); the averaged pm25 is
\* 12.03, from A and E only, with confidence 15.
C23_Witness ==
    /\ Len(calls) = 1
    /\ {calls[1].measurements[i].location : i \in DOMAIN calls[1].measurements}
          = {"A", "D", "E"}
    /\ calls[1].reading.averaged_measurements["pm25"] =
          [value |-> 1203, confidence |-> 15 * 1000]

\* C24: for a payload in any order, the Reading's stations list holds at
\* most 3 stations, they are the stations with the smallest distance_km
\* among all fetched stations, closest first, while averaged_measurements
\* is computed over all fetched stations and stations_count counts them all.
C24_ClosestThree ==
    \A n \in DOMAIN calls :
        LET stations == FetchedOf(calls[n])
            reading == calls[n].reading
            listed == reading.stations_data
            names == {listed[i].name : i \in DOMAIN listed}
        IN  /\ Len(listed) = Min(3, Len(stations))
            /\ \A i, j \in DOMAIN listed :
                  i < j => listed[i].distance_km <= listed[j].distance_km
            /\ \A i \in DOMAIN listed, k \in DOMAIN stations :
                  stations[k].name \notin names =>
                      listed[i].distance_km <= stations[k].distance_km
            /\ reading.stations_count = Len(stations)
            /\ reading.averaged_measurements = calculate_weighted_average(stations)

\* C24, failing case: the payload lists stations C (3 km), D (1 km), E
\* (1 km) and A (0 km) in that order; the Reading lists C, D and E, in that
\* order, and not A, the closest of the four it counts.
C24_PayloadOrderKept ==
    /\ Len(calls) = 1
    /\ calls[1].reading.stations_count = 4
    /\ [i \in 1..3 |-> calls[1].reading.stations_data[i].name] = <<"C", "D", "E">>
    /\ \E i \in DOMAIN calls[1].measurements :
          /\ calls[1].measurements[i].location = "A"
          /\ calls[1].measurements[i].distance_km = 0

\* C25: the ground adapter and the weather adapter return a Reading, never
\* None, on every path, and the weather adapter issues at most one request;
\* so the emergency synthesis is used only when an exception escaped from
\* the ground call and from the weather call.
C25_GroundAndWeatherReturnReadings ==
    /\ \A k \in {"openaq", "weather"} :
          results[k] \in {Pending, RaisedException} \/ Returned(k)
    /\ (pc = "gather" /\ \A k \in Sources : results[k] = Pending) =>
          /\ \A run \in ground_runs : run.r.kind = "data"
          /\ \A run \in weather_runs :
                /\ run.r.kind = "data"
                /\ Cardinality(EventsOf(run.events, "weather")) <= 1
    /\ (Done /\ EmergencyUsed) => (Failed("openaq") /\ Failed("weather"))

\* C25 witness: the satellite adapter returned None outside its coverage,
\* the AQICN adapter returned None after a failed request it handled, an
\* exception escaped from the ground call and from the weather call, and
\* the result is built on the emergency synthesis.
C25_Witness ==
    /\ Done /\ EmergencyUsed
    /\ results["tempo"] = NoData
    /\ results["aqicn"] = NoData /\ error_count["aqicn"] = 1
    /\ Failed("openaq") /\ Failed("weather")

\* C26: fusion leaves the raw Readings unchanged: each Reading stored under
\* raw_data equals the Reading handed to the fusion step (the adapter's, or
\* the emergency synthesis for the ground entry), so the no2_satellite
\* entry is added to the result's pollutants only.
C26_RawReadingsUnchanged ==
    Done =>
        \A k \in Sources :
            \/ combined_data.raw_data[k] = DataOf(results[k])
            \/ k = "openaq" /\ EmergencyUsed

\* C26, failing case: the AQICN Reading supplied the primary metrics, a
\* satellite Reading with an NO2 column was present, and the AQICN Reading
\* under raw_data has a no2_satellite entry the adapter's Reading had not.
C26_RawAqicnEnhanced ==
    /\ Done /\ combined_data.primary_source = "aqicn"
    /\ HasNo2Column
    /\ "no2_satellite" \notin DOMAIN results["aqicn"].pollutants
    /\ "no2_satellite" \in DOMAIN combined_data.raw_data["aqicn"].pollutants
    /\ combined_data.raw_data["tempo"] = results["tempo"]

\* C27: a result has a weather_adjusted index exactly when the weather
\* Reading is present, which is when data_sources.weather is true; a
\* result of the emergency path (all four Readings absent) has an overall
\* index and no weather_adjusted index.
C27_WeatherAdjustedIffWeather ==
    Done =>
        /\ combined_data.data_sources.weather <=> Returned("weather")
        /\ ~IsNone(combined_data.weather_adjusted_aqi) <=>
              combined_data.data_sources.weather
        /\ EmergencyUsed =>
              /\ IsNone(combined_data.weather_adjusted_aqi)
              /\ combined_data.overall_aqi.t = "int"

\* C27 witness: a result of the emergency path, with a numeric overall
\* index, no weather flag and no weather_adjusted index.
C27_Witness ==
    /\ Done /\ EmergencyUsed
    /\ \A k \in Sources : ~Returned(k)
    /\ combined_data.overall_aqi.t = "int"
    /\ ~combined_data.data_sources.weather
    /\ IsNone(combined_data.weather_adjusted_aqi)

\* The value _calculate_primary_aqi returned in the finished request (line
\* 601), for the ground Readings handed to the fusion step and the draws
\* made.
PrimaryOfRequest ==
    PrimaryMetrics(combined_data.raw_data["openaq"], DataOf(results["aqicn"]),
                   rand[1], rand[2])

\* C28: satellite enhancement and weather adjustment never change the
\* overall index, the primary source or the confidence of the primary
\* selection, whatever the satellite and the weather Reading are; the
\* weather adjustment is reported in weather_adjusted_aqi only.
C28_PrimaryMetricsKept ==
    Done =>
        /\ combined_data.overall_aqi = PrimaryOfRequest.overall_aqi
        /\ combined_data.primary_source = PrimaryOfRequest.primary_source
        /\ combined_data.confidence = PrimaryOfRequest.confidence

\* C28 witness: a satellite Reading was merged in and a weather Reading
\* with "cleansing" impact gave an adjusted index below the overall index,
\* which is still the one of the primary selection.
C28_Witness ==
    /\ Done
    /\ combined_data.satellite_enhancement
    /\ Returned("weather") /\ results["weather"].air_quality_impact = "cleansing"
    /\ combined_data.overall_aqi = PrimaryOfRequest.overall_aqi
    /\ combined_data.overall_aqi.v > 0
    /\ combined_data.weather_adjusted_aqi[1] < combined_data.overall_aqi.v
    /\ combined_data.confidence = "medium"

=============================================================================
